---------------------------- MODULE Spec2Model ----------------------------
(***************************************************************************)
(* Model of scraperWorker.js: one worker run (the async main function),    *)
(* the pagination loop scrapeAllProducts, the stability detector           *)
(* scrollAndWaitForStability with its inner loop scrollUntilNoChange, and  *)
(* the record extractor extractFieldsFromCard; and of cli.js (README.md):   *)
(* runWorker's exit handler and runAllUrls over its worker processes.      *)
(*                                                                         *)
(* Text is modelled as a sequence of one-character strings, so that        *)
(* trimming, digit filtering and concatenation are computed as the code    *)
(* computes them.  The page (DOM, document height, "next" control) is the  *)
(* environment: what a read of it returns is a nondeterministic choice.    *)
(***************************************************************************)
EXTENDS Integers, Sequences, FiniteSets, TLC

(***************************************************************************)
(* Bounds of the model (not program constants).                            *)
(***************************************************************************)
\* Pages 1..MaxVariedPages may render partially loaded; later pages render
\* their full content at once.
MaxVariedPages == 1
\* How many times the rendered card list may change under the worker during
\* one run (lazy loading between two reads of the page).
MaxVolatility == 1
\* How many times the document height of one page may grow while scrolling.
MaxHeight == 1
\* How many scroll steps are followed on a page that grows at every step.
MaxScrolls == 3
\* How many pages each of the concurrently running workers visits.
MaxFleetPages == 2
\* Longest price text handed to extractFieldsFromCard on its own.
MaxTextLen == 2

(***************************************************************************)
(* Program constants.                                                      *)
(***************************************************************************)
\* const MAX_PAGES = 20;
MAX_PAGES == 20
\* while (!validDataFound && attempts < 3)
MAX_ATTEMPTS == 3
\* scrollAndWaitForStability(page, 5)
STABILITY_REPEATS == 5

(***************************************************************************)
(* Text helpers.                                                           *)
(***************************************************************************)
Min(a, b) == IF a <= b THEN a ELSE b

DigitChars == <<"0", "1", "2", "3", "4", "5", "6", "7", "8", "9">>

IsDigit(c) == \E i \in 1..10 : DigitChars[i] = c

WhiteSpace == {" ", "\t", "\n"}

\* Decimal text of a natural number below 100 (used to name the cards).
NumText(n) ==
    IF n < 10 THEN <<DigitChars[n + 1]>>
    ELSE <<DigitChars[(n \div 10) + 1], DigitChars[(n % 10) + 1]>>

\* String.prototype.trim
RECURSIVE TrimLeft(_)
TrimLeft(t) ==
    IF t # <<>> /\ Head(t) \in WhiteSpace THEN TrimLeft(Tail(t)) ELSE t

RECURSIVE TrimRight(_)
TrimRight(t) ==
    IF t # <<>> /\ t[Len(t)] \in WhiteSpace
    THEN TrimRight(SubSeq(t, 1, Len(t) - 1))
    ELSE t

Trim(t) == TrimRight(TrimLeft(t))

\* text.replace(/\D+/g, "")
DigitsOnly(t) == SelectSeq(t, IsDigit)

(***************************************************************************)
(* A card of the DOM: for each of the three selectors, whether an element  *)
(* matches and its textContent.                                            *)
(***************************************************************************)
El(t) == [el |-> TRUE, text |-> t]
NoEl == [el |-> FALSE, text |-> <<>>]

\* const getText = (sel) => { el ? el.textContent.trim() : "" }
getText(e) == IF e.el THEN Trim(e.text) ELSE <<>>

dollarDigitsOf(card) ==
    LET d == DigitsOnly(getText(card.dollars)) IN IF d = <<>> THEN <<"0">> ELSE d

\* Mutant: missing cents default to "0", as missing dollars do.
centsDigitsOf_singleZero(card) ==
    LET c == DigitsOnly(getText(card.cents)) IN IF c = <<>> THEN <<"0">> ELSE c

\* const centsDigits = rawCentsText.replace(/\D+/g, "") || "00";
centsDigitsOf(card) ==
    LET c == DigitsOnly(getText(card.cents)) IN IF c = <<>> THEN <<"0", "0">> ELSE c

extractFieldsFromCard(card) ==
    [productName |-> getText(card.name),
     price |-> Trim(<<"$">> \o dollarDigitsOf(card) \o <<".">>
                    \o centsDigitsOf(card))]

\* cards.map((card) => extractFieldsFromCard(card))
ExtractAll(cards) == [i \in 1..Len(cards) |-> extractFieldsFromCard(cards[i])]


(***************************************************************************)
(* The catalogue the worker is pointed at.  Card i of the catalogue has a  *)
(* distinct name; page 1 holds 24 cards, page 2 holds 10, every later page *)
(* holds one.                                                              *)
(***************************************************************************)
CardName(i) == <<"P">> \o NumText(i)

FullCard(i) ==
    CASE i = 1 -> [name |-> El(<<" ">> \o CardName(i) \o <<"\n">>),
                   dollars |-> El(<<"$", "1", ",", "2", "3", "4">>),
                   cents |-> El(<<"5", "6">>)]
      [] i = 2 -> [name |-> El(CardName(i)),
                   dollars |-> El(<<"$", "0">>),
                   cents |-> El(<<"0">>)]
      [] i = 3 -> [name |-> El(CardName(i)),
                   dollars |-> El(<<"$", "0", "0">>),
                   cents |-> El(<<"0", "0">>)]
      [] OTHER -> [name |-> El(CardName(i)),
                   dollars |-> El(<<"$">> \o NumText(i)),
                   cents |-> IF i % 2 = 0 THEN NoEl ELSE El(<<"9", "9">>)]

\* The same card before its price has been rendered.
UnpricedCard(i) == [FullCard(i) EXCEPT !.dollars = NoEl, !.cents = NoEl]

\* The same card with a price of zero dollars and zero cents.
ZeroPricedCard(i) ==
    [FullCard(i) EXCEPT !.dollars = El(<<"$", "0">>), !.cents = El(<<"0", "0">>)]

\* The same card before its title has been rendered.
NamelessCard(i) == [FullCard(i) EXCEPT !.name = El(<<" ">>)]

FirstCard(p) == IF p = 1 THEN 1 ELSE IF p = 2 THEN 25 ELSE 32 + p

PageSize(p) == IF p = 1 THEN 24 ELSE IF p = 2 THEN 10 ELSE 1

FullPage(p) == [i \in 1..PageSize(p) |-> FullCard(FirstCard(p) + i - 1)]

\* Partially loaded renderings of page p: its first cards, one of them
\* incomplete.
PartialSize(p) == Min(3, PageSize(p))

UnpricedPage(p) ==
    [i \in 1..PartialSize(p) |->
        IF i = Min(2, PartialSize(p)) THEN UnpricedCard(FirstCard(p) + i - 1)
        ELSE FullCard(FirstCard(p) + i - 1)]

NamelessPage(p) ==
    [i \in 1..PartialSize(p) |->
        IF i = PartialSize(p) THEN NamelessCard(FirstCard(p) + i - 1)
        ELSE IF i = 1 THEN ZeroPricedCard(FirstCard(p) + i - 1)
        ELSE FullCard(FirstCard(p) + i - 1)]

\* The simulated page of the stability detector's harness: 0, 3 or 4 cards.
SimDoms == {<<>>, [i \in 1..3 |-> FullCard(i)], [i \in 1..4 |-> FullCard(i)]}

\* Price texts for extractFieldsFromCard on its own: every text of at most
\* MaxTextLen characters of PriceChars, and the texts "$1,234" and "56".
PriceChars == {"$", "1", "0", ",", " "}

PriceTexts ==
    UNION {[1..k -> PriceChars] : k \in 0..MaxTextLen}
    \cup {<<"$", "1", ",", "2", "3", "4">>, <<"5", "6">>}

PriceElements == {NoEl} \cup {El(t) : t \in PriceTexts}

InputCards ==
    {[name |-> El(CardName(1)), dollars |-> d, cents |-> c] :
        d \in PriceElements, c \in PriceElements}

\* What page p can show when it is read.
Renders(p) ==
    IF p = 0 THEN SimDoms
    ELSE IF p <= MaxVariedPages
         THEN {FullPage(p), <<>>, UnpricedPage(p), NamelessPage(p)}
         ELSE {FullPage(p)}

(***************************************************************************)
(* State.                                                                  *)
(***************************************************************************)
VARIABLES
    pc,                 \* where the worker is
    ret,                \* where scrollAndWaitForStability returns to
    \* the environment: the page
    dom,                \* the cards the scraping page shows now
    height,             \* document.body.scrollHeight
    volatility,         \* changes of the card list still to come
    growing,            \* the document grows at every scroll step
    restless,           \* the card list never stops changing
    \* scrollUntilNoChange / scrollAndWaitForStability
    previousHeight, stableCountRepeats, lastCount, maxRepeats,
    readings,           \* history: the counts read in a stand-alone call
                        \* (on a page that settles)
    \* scrapeAllProducts
    pageCount, validDataFound, attempts, productData,
    products,           \* scrapeAllProducts' allProducts
    nextControl,        \* nextButton / isDisabled of this iteration
    source,             \* history: the cards productData was extracted from
    accepted,           \* history: per appended page, the cards it came from
    clicks,             \* history: nextButton.click() calls
    passes,             \* history: stabilization calls made on this page
    \* main
    browser, setupPage, scraperPage,
    allProducts,        \* main's allProducts
    stdout, csv, csvWrites,
    result, returned, exitCode,
    storeChanges,       \* history: completed changeStore calls
    closeCalls,         \* history: browser.close() calls
    cleanups,           \* history: executions of the finally block
    errorAt,            \* history: where an error was thrown ("none")
    csvName,            \* process.argv[4], by the prefix of its file name
    sort,               \* the child process started by exec(), if any
    \* cli.js: the processes spawned by runAllUrls and what they leave
    workers,            \* per worker: stage, pages visited, stdout, exit code
    files,              \* per file name: the workers that wrote it
    promises,           \* per worker: what runWorker's promise resolved with
    aggregate           \* runAllUrls' allProducts, or the error it threw

envVars == <<dom, height, volatility>>
detVars == <<previousHeight, stableCountRepeats, lastCount, maxRepeats, readings>>
loopVars == <<pageCount, validDataFound, attempts, productData, products,
              nextControl, source, accepted, clicks>>
mainVars == <<browser, setupPage, scraperPage, allProducts, stdout, csv,
              csvWrites, result, returned, exitCode, storeChanges, closeCalls,
              cleanups>>
modeVars == <<growing, restless>>
fleetVars == <<workers, files, promises, aggregate>>
sortVars == <<csvName, sort>>
runVars == <<pc, ret, envVars, detVars, loopVars, mainVars, errorAt, passes,
             sortVars>>
vars == <<runVars, modeVars, fleetVars>>

LogLine == [kind |-> "log", data |-> <<>>]
JsonLine(d) == [kind |-> "json", data |-> d]

\* const urls = [ {id: 1, ...}, {id: 2, ...}, {id: 3, ...} ];
NumUrls == 3
Workers == 1..NumUrls

\* urls[w].csv: CSVs/Unsorted/SPF_<date>.csv, .../PT_<date>.csv,
\* .../PLY_<date>.csv.
UrlCsv(w) == IF w = 1 THEN "SPF_" ELSE IF w = 2 THEN "PT_" ELSE "PLY_"

\* The worker this run is: process.argv[2], the id of the chosen url (here
\* the third url, Plywood).
ThisWorker == 3

\* A worker process that was spawned and has not run yet.
Spawned == [stage |-> "spawned", page |-> 0, out |-> <<>>, code |-> -1]

\* A promise of runWorker: pending, resolved with an array, or resolved with
\* the exit code.
Pending == [settled |-> FALSE, isArray |-> FALSE, items |-> <<>>, code |-> -1]
ResolvedArray(a) ==
    [settled |-> TRUE, isArray |-> TRUE, items |-> a, code |-> -1]
ResolvedCode(c) ==
    [settled |-> TRUE, isArray |-> FALSE, items |-> <<>>, code |-> c]

InitCommon ==
    /\ csvName = UrlCsv(ThisWorker)
    /\ sort = "none"
    /\ height = 0
    /\ volatility = MaxVolatility
    /\ passes = 0
    /\ workers = [w \in Workers |-> Spawned]
    /\ files = {}
    /\ promises = [w \in Workers |-> Pending]
    /\ aggregate = [state |-> "pending", products |-> <<>>]
    /\ previousHeight = 0
    /\ stableCountRepeats = 0
    /\ lastCount = 0
    /\ readings = <<>>
    /\ pageCount = 0
    /\ validDataFound = FALSE
    /\ attempts = 0
    /\ productData = <<>>
    /\ products = <<>>
    /\ nextControl = "unqueried"
    /\ source = [cards |-> <<>>, attempt |-> 0, pass |-> 0]
    /\ accepted = <<>>
    /\ clicks = 0
    /\ browser = "undefined"
    /\ setupPage = "none"
    /\ scraperPage = "none"
    /\ allProducts = <<>>
    /\ stdout = <<>>
    /\ csv = <<>>
    /\ csvWrites = 0
    /\ result = <<>>
    /\ returned = FALSE
    /\ exitCode = -1
    /\ storeChanges = 0
    /\ closeCalls = 0
    /\ cleanups = 0
    /\ errorAt = "none"

\* A page whose height and card list settle after finitely many changes.
Settling == growing = FALSE /\ restless = FALSE

\* A worker process right after start.
Init ==
    /\ InitCommon
    /\ Settling
    /\ pc = "connect"
    /\ ret = "none"
    /\ dom = <<>>
    /\ maxRepeats = STABILITY_REPEATS

\* scrollAndWaitForStability called on a simulated page with threshold n.
Thresholds == 1..STABILITY_REPEATS

InitStability ==
    /\ InitCommon
    /\ Settling
    /\ pc = "sws_test"
    /\ ret = "caller"
    /\ dom \in SimDoms
    /\ maxRepeats \in Thresholds

(***************************************************************************)
(* The environment.                                                        *)
(***************************************************************************)
\* What the next read of the card list can see: the cards as they are, or,
\* while the page is still loading, another rendering of the same page.
NextRenders ==
    {dom} \cup (IF restless \/ volatility > 0 THEN Renders(pageCount) ELSE {})

Rerender(d) ==
    /\ dom' = d
    /\ volatility' = IF d = dom \/ restless THEN volatility ELSE volatility - 1

\* What document.body.scrollHeight can be after a scroll step and its wait.
HeightsAfterScroll ==
    IF growing THEN (IF height < MaxScrolls THEN {height + 1} ELSE {})
    ELSE {height} \cup (IF height < MaxHeight THEN {height + 1} ELSE {})

\* A navigation of the scraping page to catalogue page p has completed.
Navigated(p) ==
    /\ dom' \in Renders(p)
    /\ height' = 0
    /\ UNCHANGED volatility

(***************************************************************************)
(* scrollUntilNoChange and scrollAndWaitForStability.                      *)
(***************************************************************************)
\* let stableCountRepeats = 0; let lastCount = 0;
CallStability(r) ==
    /\ stableCountRepeats' = 0
    /\ lastCount' = 0
    /\ readings' = <<>>
    /\ maxRepeats' = STABILITY_REPEATS
    /\ ret' = r
    /\ pc' = "sws_test"
    /\ UNCHANGED previousHeight

\* Mutant: one more iteration once the threshold is reached.
KeepWaiting_offByOne == stableCountRepeats <= maxRepeats

\* while (stableCountRepeats < maxRepeats)
KeepWaiting == stableCountRepeats < maxRepeats

\* while (stableCountRepeats < maxRepeats)
StabilityTest ==
    /\ pc = "sws_test"
    /\ pc' = IF KeepWaiting THEN "suc_init"
             ELSE IF ret = "caller" THEN "returned" ELSE ret
    /\ UNCHANGED <<ret, envVars, detVars, loopVars, mainVars, errorAt>>
    /\ UNCHANGED <<modeVars, passes, fleetVars, sortVars>>

\* let previousHeight = await page.evaluate("document.body.scrollHeight");
ScrollInit ==
    /\ pc = "suc_init"
    /\ previousHeight' = height
    /\ pc' = "suc_scroll"
    /\ UNCHANGED <<ret, envVars, stableCountRepeats, lastCount, maxRepeats,
                   readings, loopVars, mainVars, errorAt>>
    /\ UNCHANGED <<modeVars, passes, fleetVars, sortVars>>

\* Mutant: the loop also gives up once the page is two screens high.
ScrollDone_capped(currentHeight) ==
    currentHeight = previousHeight \/ currentHeight >= 2

\* if (currentHeight === previousHeight) break;
ScrollDone(currentHeight) == currentHeight = previousHeight

\* One round of the while (true) loop: scroll, wait, measure, compare.
ScrollStep ==
    /\ pc = "suc_scroll"
    /\ \E currentHeight \in HeightsAfterScroll :
          /\ height' = currentHeight
          /\ IF ScrollDone(currentHeight)
             THEN pc' = "sws_count" /\ UNCHANGED previousHeight
             ELSE pc' = "suc_scroll" /\ previousHeight' = currentHeight
    /\ UNCHANGED <<ret, dom, volatility, stableCountRepeats, lastCount,
                   maxRepeats, readings, loopVars, mainVars, errorAt>>
    /\ UNCHANGED <<modeVars, passes, fleetVars, sortVars>>

\* Mutant: a changed reading already counts as the first stable one.
NextRepeats_countsChange(currentCount) ==
    IF currentCount = lastCount THEN stableCountRepeats + 1 ELSE 1

\* Mutant: a changed reading leaves the counter as it is.
NextRepeats_noReset(currentCount) ==
    IF currentCount = lastCount THEN stableCountRepeats + 1
    ELSE stableCountRepeats

\* if (currentCount === lastCount) stableCountRepeats++; else stableCountRepeats = 0
NextRepeats(currentCount) ==
    IF currentCount = lastCount THEN stableCountRepeats + 1 ELSE 0

\* Count the cards and compare with the last iteration.
StabilityCount ==
    /\ pc = "sws_count"
    /\ \E d \in NextRenders :
          LET currentCount == Len(d) IN
          /\ Rerender(d)
          /\ readings' = IF ret = "caller" /\ ~restless
                          THEN Append(readings, currentCount)
                          ELSE readings
          /\ stableCountRepeats' = NextRepeats(currentCount)
          /\ lastCount' = currentCount
    /\ pc' = "sws_test"
    /\ UNCHANGED <<ret, height, previousHeight, maxRepeats, loopVars, mainVars,
                   errorAt>>
    /\ UNCHANGED <<modeVars, passes, fleetVars, sortVars>>

(***************************************************************************)
(* scrapeAllProducts.                                                      *)
(***************************************************************************)
\* console.log(...Navigating to initial URL...); const allProducts = [];
SapEnter ==
    /\ pc = "sap_enter"
    /\ stdout' = Append(stdout, LogLine)
    /\ products' = <<>>
    /\ pc' = "sap_goto"
    /\ UNCHANGED <<ret, envVars, detVars, pageCount, validDataFound, attempts,
                   productData, nextControl, source, accepted, clicks, browser,
                   setupPage, scraperPage, allProducts, csv, csvWrites, result,
                   returned, exitCode, storeChanges, closeCalls, cleanups,
                   errorAt>>
    /\ UNCHANGED <<modeVars, passes, fleetVars, sortVars>>

\* await page.goto(initialUrl); await delay(5000); let pageCount = 0;
SapGoto ==
    /\ pc = "sap_goto"
    /\ Navigated(1)
    /\ pageCount' = 0
    /\ pc' = "page_start"
    /\ UNCHANGED <<ret, detVars, validDataFound, attempts, productData, products,
                   nextControl, source, accepted, clicks, mainVars, errorAt>>
    /\ UNCHANGED <<modeVars, passes, fleetVars, sortVars>>

\* pageCount++; await scrollAndWaitForStability(page, 5);
PageStart ==
    /\ pc = "page_start"
    /\ pageCount' = pageCount + 1
    /\ nextControl' = "unqueried"
    /\ passes' = 1
    /\ CallStability("screenshot")
    /\ UNCHANGED <<envVars, validDataFound, attempts, productData, products,
                   source, accepted, clicks, mainVars, errorAt>>
    /\ UNCHANGED <<modeVars, fleetVars, sortVars>>

\* await page.screenshot(...); let validDataFound = false; let attempts = 0;
\* let productData = [];
Screenshot ==
    /\ pc = "screenshot"
    /\ validDataFound' = FALSE
    /\ attempts' = 0
    /\ productData' = <<>>
    /\ pc' = "retry"
    /\ UNCHANGED <<ret, envVars, detVars, pageCount, products, nextControl,
                   source, accepted, clicks, mainVars, errorAt>>
    /\ UNCHANGED <<modeVars, passes, fleetVars, sortVars>>

\* Mutant: the retry loop has no cap.
RetryGuard_noCap == ~validDataFound

\* Mutant: one attempt too many.
RetryGuard_offByOne == ~validDataFound /\ attempts <= MAX_ATTEMPTS

\* while (!validDataFound && attempts < 3)
RetryGuard == ~validDataFound /\ attempts < MAX_ATTEMPTS

\* Mutant: the price is not looked at.
IsInvalidEntry_nameOnly(p) == p.productName = <<>>

\* (p) => !p.productName || p.price === "$0.00"
IsInvalidEntry(p) ==
    p.productName = <<>> \/ p.price = <<"$", "0", ".", "0", "0">>

invalidEntries(data) == SelectSeq(data, IsInvalidEntry)

\* Mutant: a page without cards is taken for an invalid one.
HasInvalidEntries_orEmpty(data) ==
    Len(invalidEntries(data)) > 0 \/ Len(data) = 0

\* if (invalidEntries.length > 0)
HasInvalidEntries(data) == Len(invalidEntries(data)) > 0

\* One round of the retry loop: extract, validate, refresh or accept.
Extract ==
    /\ pc = "retry"
    /\ RetryGuard
    /\ attempts' = attempts + 1
    /\ \E d \in NextRenders :
          /\ Rerender(d)
          /\ productData' = ExtractAll(d)
          /\ source' = [cards |-> d, attempt |-> attempts + 1,
                         pass |-> passes]
          /\ IF HasInvalidEntries(ExtractAll(d))
             THEN /\ CallStability("retry")
                  /\ passes' = passes + 1
                  /\ UNCHANGED validDataFound
             ELSE /\ validDataFound' = TRUE
                  /\ pc' = "retry"
                  /\ UNCHANGED <<ret, detVars, passes>>
    /\ UNCHANGED <<height, pageCount, products, nextControl, accepted, clicks,
                   mainVars, errorAt>>
    /\ UNCHANGED <<modeVars, fleetVars, sortVars>>

\* Mutant: the page's records are put in front of the list.
PushAll_prepend(list, items) == items \o list

\* allProducts.push(...productData)
PushAll(list, items) == list \o items

\* The retry loop is over: add the page's data to the overall list.
AppendPage ==
    /\ pc = "retry"
    /\ ~RetryGuard
    /\ products' = PushAll(products, productData)
    /\ accepted' = Append(accepted, source.cards)
    /\ pc' = "deciding"
    /\ UNCHANGED <<ret, envVars, detVars, pageCount, validDataFound, attempts,
                   productData, nextControl, source, clicks, mainVars, errorAt>>
    /\ UNCHANGED <<modeVars, passes, fleetVars, sortVars>>

\* Mutant: the cap is compared with > instead of >=.
MaxPagesReached_offByOne == pageCount > MAX_PAGES

\* if (pageCount >= MAX_PAGES)
MaxPagesReached == pageCount >= MAX_PAGES

\* console.log(...Reached max...); break;
DecideCap ==
    /\ pc = "deciding"
    /\ MaxPagesReached
    /\ stdout' = Append(stdout, LogLine)
    /\ pc' = "sap_finish"
    /\ UNCHANGED <<ret, envVars, detVars, loopVars, browser, setupPage,
                   scraperPage, allProducts, csv, csvWrites, result, returned,
                   exitCode, storeChanges, closeCalls, cleanups, errorAt>>
    /\ UNCHANGED <<modeVars, passes, fleetVars, sortVars>>

\* const nextButton = await page.$(NEXT_BUTTON_SELECTOR); if (!nextButton) break;
QueryNext ==
    /\ pc = "deciding"
    /\ ~MaxPagesReached
    /\ \E found \in BOOLEAN :
          /\ nextControl' = IF found THEN "present" ELSE "absent"
          /\ pc' = IF found THEN "check_disabled" ELSE "sap_finish"
    /\ UNCHANGED <<ret, envVars, detVars, pageCount, validDataFound, attempts,
                   productData, products, source, accepted, clicks, mainVars,
                   errorAt>>
    /\ UNCHANGED <<modeVars, passes, fleetVars, sortVars>>

\* Mutant: a disabled control is clicked all the same.
StopsOnDisabled_never(isDisabled) == FALSE

\* if (isDisabled) break;
StopsOnDisabled(isDisabled) == isDisabled

\* const isDisabled = await page.evaluate((btn) => btn.hasAttribute("disabled"))
CheckDisabled ==
    /\ pc = "check_disabled"
    /\ \E isDisabled \in BOOLEAN :
          /\ nextControl' = IF isDisabled THEN "disabled" ELSE "enabled"
          /\ pc' = IF StopsOnDisabled(isDisabled) THEN "sap_finish"
                   ELSE "click_next"
    /\ UNCHANGED <<ret, envVars, detVars, pageCount, validDataFound, attempts,
                   productData, products, source, accepted, clicks, mainVars,
                   errorAt>>
    /\ UNCHANGED <<modeVars, passes, fleetVars, sortVars>>

\* await Promise.all([nextButton.click(), page.waitForNavigation(...)]);
\* await delay(3000);
ClickNext ==
    /\ pc = "click_next"
    /\ clicks' = clicks + 1
    /\ Navigated(pageCount + 1)
    /\ pc' = "page_start"
    /\ UNCHANGED <<ret, detVars, pageCount, validDataFound, attempts,
                   productData, products, nextControl, source, accepted,
                   mainVars, errorAt>>
    /\ UNCHANGED <<modeVars, passes, fleetVars, sortVars>>

\* The click is delivered and waitForNavigation rejects after its timeout.
NavigationTimeout ==
    /\ pc = "click_next"
    /\ clicks' = clicks + 1
    /\ errorAt' = "waitForNavigation"
    /\ pc' = "catch"
    /\ UNCHANGED <<ret, envVars, detVars, pageCount, validDataFound, attempts,
                   productData, products, nextControl, source, accepted,
                   mainVars>>
    /\ UNCHANGED <<modeVars, passes, fleetVars, sortVars>>

\* console.log(...Finished scraping...); return allProducts;
\* const products = await scrapeAllProducts(...); allProducts.push(...products);
SapFinish ==
    /\ pc = "sap_finish"
    /\ stdout' = Append(stdout, LogLine)
    /\ allProducts' = PushAll(<<>>, products)
    /\ pc' = "scraper_close"
    /\ UNCHANGED <<ret, envVars, detVars, loopVars, browser, setupPage,
                   scraperPage, csv, csvWrites, result, returned, exitCode,
                   storeChanges, closeCalls, cleanups, errorAt>>
    /\ UNCHANGED <<modeVars, passes, fleetVars, sortVars>>

(***************************************************************************)
(* writeToCSV.                                                             *)
(***************************************************************************)
\* text.replace(/,/g, " ")
ReplaceCommas(t) == [i \in 1..Len(t) |-> IF t[i] = "," THEN " " ELSE t[i]]

CsvRow(item) ==
    ReplaceCommas(item.productName) \o <<",">> \o ReplaceCommas(item.price)

CsvContent(data) ==
    <<"product_name,price">> \o [i \in 1..Len(data) |-> CsvRow(data[i])]

(***************************************************************************)
(* main: the async function the worker process runs.                       *)
(***************************************************************************)
\* browser = await connectToBrowser(AUTH);
Connect ==
    /\ pc = "connect"
    /\ browser' = "open"
    /\ pc' = "setup_newPage"
    /\ UNCHANGED <<ret, envVars, detVars, loopVars, setupPage, scraperPage,
                   allProducts, stdout, csv, csvWrites, result, returned,
                   exitCode, storeChanges, closeCalls, cleanups, errorAt>>
    /\ UNCHANGED <<modeVars, passes, fleetVars, sortVars>>

\* const setupPage = await browser.newPage();
SetupNewPage ==
    /\ pc = "setup_newPage"
    /\ setupPage' = "open"
    /\ pc' = "setup_goto"
    /\ UNCHANGED <<ret, envVars, detVars, loopVars, browser, scraperPage,
                   allProducts, stdout, csv, csvWrites, result, returned,
                   exitCode, storeChanges, closeCalls, cleanups, errorAt>>
    /\ UNCHANGED <<modeVars, passes, fleetVars, sortVars>>

\* await setupPage.goto(setupPageUrl); await delay(5000);
SetupGoto ==
    /\ pc = "setup_goto"
    /\ pc' = "changeStore"
    /\ UNCHANGED <<ret, envVars, detVars, loopVars, mainVars, errorAt>>
    /\ UNCHANGED <<modeVars, passes, fleetVars, sortVars>>

\* await changeStore(setupPage, setupPageLocation);
ChangeStore ==
    /\ pc = "changeStore"
    /\ storeChanges' = storeChanges + 1
    /\ pc' = "setup_close"
    /\ UNCHANGED <<ret, envVars, detVars, loopVars, browser, setupPage,
                   scraperPage, allProducts, stdout, csv, csvWrites, result,
                   returned, exitCode, closeCalls, cleanups, errorAt>>
    /\ UNCHANGED <<modeVars, passes, fleetVars, sortVars>>

\* Mutant: the setup page is left open.
SetupClose_forgets ==
    /\ pc = "setup_close"
    /\ pc' = "scraper_newPage"
    /\ UNCHANGED <<ret, envVars, detVars, loopVars, mainVars, errorAt>>
    /\ UNCHANGED <<modeVars, passes, fleetVars, sortVars>>

\* await setupPage.close();
SetupClose ==
    /\ pc = "setup_close"
    /\ setupPage' = "closed"
    /\ pc' = "scraper_newPage"
    /\ UNCHANGED <<ret, envVars, detVars, loopVars, browser, scraperPage,
                   allProducts, stdout, csv, csvWrites, result, returned,
                   exitCode, storeChanges, closeCalls, cleanups, errorAt>>
    /\ UNCHANGED <<modeVars, passes, fleetVars, sortVars>>

\* const allProducts = []; const scraperPage = await browser.newPage();
ScraperNewPage ==
    /\ pc = "scraper_newPage"
    /\ allProducts' = <<>>
    /\ scraperPage' = "open"
    /\ pc' = "sap_enter"
    /\ UNCHANGED <<ret, envVars, detVars, loopVars, browser, setupPage, stdout,
                   csv, csvWrites, result, returned, exitCode, storeChanges,
                   closeCalls, cleanups, errorAt>>
    /\ UNCHANGED <<modeVars, passes, fleetVars, sortVars>>

\* await scraperPage.close();
ScraperClose ==
    /\ pc = "scraper_close"
    /\ scraperPage' = "closed"
    /\ pc' = "emit"
    /\ UNCHANGED <<ret, envVars, detVars, loopVars, browser, setupPage,
                   allProducts, stdout, csv, csvWrites, result, returned,
                   exitCode, storeChanges, closeCalls, cleanups, errorAt>>
    /\ UNCHANGED <<modeVars, passes, fleetVars, sortVars>>

\* console.log(...All scraping done...); console.log(JSON.stringify(allProducts))
Emit ==
    /\ pc = "emit"
    /\ stdout' = stdout \o <<LogLine, JsonLine(allProducts)>>
    /\ pc' = "write_csv"
    /\ UNCHANGED <<ret, envVars, detVars, loopVars, browser, setupPage,
                   scraperPage, allProducts, csv, csvWrites, result, returned,
                   exitCode, storeChanges, closeCalls, cleanups, errorAt>>
    /\ UNCHANGED <<modeVars, passes, fleetVars, sortVars>>

\* Mutant: the Plywood CSV is sorted too.
StartsSort_always(outPath) == outPath \in {"PT_", "SPF_", "PLY_"}

\* if (outPath.includes("PT_") || outPath.includes("SPF_")) pythonScript = ...
\* (the assignment for "PLY_" is commented out); if (pythonScript) exec(...)
StartsSort(outPath) == outPath \in {"PT_", "SPF_"}

\* writeToCSV(allProducts, csvPath); console.log(...Scraped a total of...);
\* writeToCSV writes the file, then starts the sort without waiting for it.
WriteCsv ==
    /\ pc = "write_csv"
    /\ csv' = CsvContent(allProducts)
    /\ csvWrites' = csvWrites + 1
    /\ sort' = IF StartsSort(csvName) THEN "running" ELSE sort
    /\ stdout' = Append(stdout, LogLine)
    /\ pc' = "return"
    /\ UNCHANGED <<ret, envVars, detVars, loopVars, browser, setupPage,
                   scraperPage, allProducts, result, returned, exitCode,
                   storeChanges, closeCalls, cleanups, errorAt>>
    /\ UNCHANGED <<modeVars, passes, fleetVars, csvName>>

\* The callback of exec(): the python script has ended while main was waiting
\* in await browser.close(), the only await after writeToCSV.  With an error
\* or output on stderr it calls console.error, else console.log.
SortCallback ==
    /\ pc = "exit"
    /\ sort = "running"
    /\ \E ok \in BOOLEAN :
          /\ sort' = IF ok THEN "sorted" ELSE "failed"
          /\ stdout' = IF ok THEN Append(stdout, LogLine) ELSE stdout
    /\ UNCHANGED <<pc, ret, envVars, detVars, loopVars, browser, setupPage,
                   scraperPage, allProducts, csv, csvWrites, result, returned,
                   exitCode, storeChanges, closeCalls, cleanups, errorAt>>
    /\ UNCHANGED <<modeVars, passes, fleetVars, csvName>>

\* return allProducts;
Return ==
    /\ pc = "return"
    /\ result' = allProducts
    /\ returned' = TRUE
    /\ pc' = "finally"
    /\ UNCHANGED <<ret, envVars, detVars, loopVars, browser, setupPage,
                   scraperPage, allProducts, stdout, csv, csvWrites, exitCode,
                   storeChanges, closeCalls, cleanups, errorAt>>
    /\ UNCHANGED <<modeVars, passes, fleetVars, sortVars>>

\* The awaits that reject when the browser, the page or the file system fails.
ThrowPoints ==
    {"connect", "setup_newPage", "setup_goto", "changeStore", "setup_close",
     "scraper_newPage", "sap_goto", "suc_init", "suc_scroll", "sws_count",
     "screenshot", "check_disabled", "click_next", "scraper_close", "write_csv"}

CanThrow ==
    \/ pc \in ThrowPoints
    \/ pc = "retry" /\ RetryGuard
    \/ pc = "deciding" /\ ~MaxPagesReached

\* An await inside the try block rejects: control goes to the catch clause.
Throw ==
    /\ CanThrow
    /\ errorAt' = pc
    /\ pc' = "catch"
    /\ UNCHANGED <<ret, envVars, detVars, loopVars, mainVars>>
    /\ UNCHANGED <<modeVars, passes, fleetVars, sortVars>>

\* Mutant: the catch clause leaves without the finally block.
Catch_skipsFinally ==
    /\ pc = "catch"
    /\ result' = <<>>
    /\ returned' = TRUE
    /\ pc' = "exit"
    /\ UNCHANGED <<ret, envVars, detVars, loopVars, browser, setupPage,
                   scraperPage, allProducts, stdout, csv, csvWrites, exitCode,
                   storeChanges, closeCalls, cleanups, errorAt>>
    /\ UNCHANGED <<modeVars, passes, fleetVars, sortVars>>

\* Mutant: the catch clause returns what was scraped before the error.
Catch_returnsPartial ==
    /\ pc = "catch"
    /\ result' = products
    /\ returned' = TRUE
    /\ pc' = "finally"
    /\ UNCHANGED <<ret, envVars, detVars, loopVars, browser, setupPage,
                   scraperPage, allProducts, stdout, csv, csvWrites, exitCode,
                   storeChanges, closeCalls, cleanups, errorAt>>
    /\ UNCHANGED <<modeVars, passes, fleetVars, sortVars>>

\* catch (error) { console.error(...); return []; }
Catch ==
    /\ pc = "catch"
    /\ result' = <<>>
    /\ returned' = TRUE
    /\ pc' = "finally"
    /\ UNCHANGED <<ret, envVars, detVars, loopVars, browser, setupPage,
                   scraperPage, allProducts, stdout, csv, csvWrites, exitCode,
                   storeChanges, closeCalls, cleanups, errorAt>>
    /\ UNCHANGED <<modeVars, passes, fleetVars, sortVars>>

\* Mutant: the browser is closed at the end of the try block only.
ShouldClose_onSuccess == browser # "undefined" /\ errorAt = "none"

\* if (browser)
ShouldClose == browser # "undefined"

\* finally { if (browser) { console.log; await browser.close(); console.log } ...
Finally ==
    /\ pc = "finally"
    /\ cleanups' = cleanups + 1
    /\ IF ShouldClose
       THEN /\ browser' = "closed"
            /\ closeCalls' = closeCalls + 1
            /\ stdout' = stdout \o <<LogLine, LogLine>>
       ELSE UNCHANGED <<browser, closeCalls, stdout>>
    /\ pc' = "exit"
    /\ UNCHANGED <<ret, envVars, detVars, loopVars, setupPage, scraperPage,
                   allProducts, csv, csvWrites, result, returned, exitCode,
                   storeChanges, errorAt>>
    /\ UNCHANGED <<modeVars, passes, fleetVars, sortVars>>

\* process.exit(0);
ExitCodeAtExit == 0

Exit ==
    /\ pc = "exit"
    /\ exitCode' = ExitCodeAtExit
    /\ pc' = "done"
    /\ UNCHANGED <<ret, envVars, detVars, loopVars, browser, setupPage,
                   scraperPage, allProducts, stdout, csv, csvWrites, result,
                   returned, storeChanges, closeCalls, cleanups, errorAt>>
    /\ UNCHANGED <<modeVars, passes, fleetVars, sortVars>>

(***************************************************************************)
(* cli.js: runWorker, the parent of the worker process.                    *)
(***************************************************************************)
\* JSON.parse(scrapedData.trim()) returns a value only when the whole of the
\* captured stdout is one JSON text; any other line beside it makes it throw.
ParseOk(out) == Len(out) = 1 /\ out[1].kind = "json"

Parsed(out) == out[1].data

\* worker.on("exit", (code) => { ... }): the first resolve() call wins.
OnExit(code, out) ==
    IF code = 0
    THEN IF ParseOk(out) THEN ResolvedArray(Parsed(out))
         ELSE ResolvedArray(<<>>)
    ELSE ResolvedCode(code)

\* The worker process has exited: runWorker's exit handler runs.
RunWorkerExit ==
    /\ pc = "done"
    /\ promises' = [promises EXCEPT ![ThisWorker] = OnExit(exitCode, stdout)]
    /\ pc' = "reported"
    /\ UNCHANGED <<ret, envVars, detVars, loopVars, mainVars, errorAt, passes,
                   modeVars, workers, files, aggregate, sortVars>>

(***************************************************************************)
(* cli.js: runAllUrls and the worker processes it runs side by side.  Each *)
(* process is the program above; here it is followed only through what it  *)
(* leaves outside itself: the files it writes, its stdout, its exit code.   *)
(***************************************************************************)
\* const screenshotPath = `debug_page_${pageCount}.png`; relative to the
\* working directory, which spawn() makes the parent's for every worker.
ScreenshotPath(n) == <<"debug_page", n>>

\* process.argv[4]: urls[w].csv, one name per url.
CsvPath(w) == <<"csv", w>>

WriteFile(name, w) == files \cup {[name |-> name, by |-> w]}

\* The records worker w has after n pages of its listing.
RunRecords(w, n) ==
    ExtractAll([i \in 1..n |-> FullCard(NumUrls * (i - 1) + w)])

\* What a successful run prints: the lines of 258, 409, 496, the JSON line of
\* 506, then the lines of 512, 523, 525.
SuccessStdout(r) ==
    <<LogLine, LogLine, LogLine, JsonLine(r), LogLine, LogLine, LogLine>>

\* What a run that ends in the catch clause prints: the lines of 523, 525.
FailureStdout == <<LogLine, LogLine>>

\* A static import of the worker script fails (auth.js is absent): node ends
\* the process with exit code 1 before main runs.
WorkerLoadFails(w) ==
    /\ workers[w].stage = "spawned"
    /\ workers' = [workers EXCEPT ![w] =
                      [stage |-> "exited", page |-> 0, out |-> <<>>, code |-> 1]]
    /\ UNCHANGED <<runVars, modeVars, files, promises, aggregate>>

\* pageCount++; ...; await page.screenshot({ path: screenshotPath, ... });
WorkerPage(w) ==
    /\ workers[w].stage \in {"spawned", "scraping"}
    /\ workers[w].page < MaxFleetPages
    /\ workers' = [workers EXCEPT ![w].stage = "scraping",
                                  ![w].page = workers[w].page + 1]
    /\ files' = WriteFile(ScreenshotPath(workers[w].page + 1), w)
    /\ UNCHANGED <<runVars, modeVars, promises, aggregate>>

\* The run ends in the try block: JSON line, CSV file, process.exit(0).
WorkerSucceeds(w) ==
    /\ workers[w].stage = "scraping"
    /\ workers' = [workers EXCEPT
                      ![w].stage = "exited",
                      ![w].out = SuccessStdout(RunRecords(w, workers[w].page)),
                      ![w].code = ExitCodeAtExit]
    /\ files' = WriteFile(CsvPath(w), w)
    /\ UNCHANGED <<runVars, modeVars, promises, aggregate>>

\* The run ends in the catch clause: no JSON line, process.exit(0).
WorkerFails(w) ==
    /\ workers[w].stage \in {"spawned", "scraping"}
    /\ workers' = [workers EXCEPT ![w].stage = "exited",
                                  ![w].out = FailureStdout,
                                  ![w].code = ExitCodeAtExit]
    /\ UNCHANGED <<runVars, modeVars, files, promises, aggregate>>

\* worker.on("exit", ...) of runWorker(w, ...).
WorkerExited(w) ==
    /\ workers[w].stage = "exited"
    /\ ~promises[w].settled
    /\ promises' = [promises EXCEPT
                       ![w] = OnExit(workers[w].code, workers[w].out)]
    /\ UNCHANGED <<runVars, modeVars, workers, files, aggregate>>

\* results.forEach((products) => allProducts.push(...products)), in the
\* order of urls; spreading a number throws a TypeError.
RECURSIVE Collect(_, _)
Collect(w, acc) ==
    IF w > NumUrls THEN [state |-> "collected", products |-> acc]
    ELSE IF ~promises[w].isArray THEN [state |-> "TypeError", products |-> acc]
    ELSE Collect(w + 1, PushAll(acc, promises[w].items))

\* const results = await Promise.all(promises); results.forEach(...)
Aggregate ==
    /\ aggregate.state = "pending"
    /\ \A w \in Workers : promises[w].settled
    /\ aggregate' = Collect(1, <<>>)
    /\ UNCHANGED <<runVars, modeVars, workers, files, promises>>

(***************************************************************************)
(* Specifications.                                                         *)
(***************************************************************************)
Next ==
    \/ Connect \/ SetupNewPage \/ SetupGoto \/ ChangeStore \/ SetupClose
    \/ ScraperNewPage \/ SapEnter \/ SapGoto \/ PageStart
    \/ StabilityTest \/ ScrollInit \/ ScrollStep \/ StabilityCount
    \/ Screenshot \/ Extract \/ AppendPage
    \/ DecideCap \/ QueryNext \/ CheckDisabled \/ ClickNext \/ NavigationTimeout
    \/ SapFinish \/ ScraperClose \/ Emit \/ WriteCsv \/ Return
    \/ Throw \/ Catch \/ Finally \/ Exit \/ RunWorkerExit

\* One worker run (of the Plywood url: no sort is started, so SortCallback
\* has nothing to do in it).
Spec == Init /\ [][Next]_vars

\* The end of a run that scraped one page, for each of the three urls: the
\* scraping page has just been closed.
InitSort ==
    /\ pc = "emit"
    /\ csvName \in {UrlCsv(w) : w \in Workers}
    /\ sort = "none"
    /\ dom \in Renders(1)
    /\ validDataFound = (Len(invalidEntries(ExtractAll(dom))) = 0)
    /\ attempts = IF validDataFound THEN 1 ELSE MAX_ATTEMPTS
    /\ passes = IF validDataFound THEN 1 ELSE MAX_ATTEMPTS + 1
    /\ ret = IF validDataFound THEN "screenshot" ELSE "retry"
    /\ source = [cards |-> dom, attempt |-> attempts, pass |-> attempts]
    /\ productData = ExtractAll(dom)
    /\ products = ExtractAll(dom)
    /\ allProducts = ExtractAll(dom)
    /\ accepted = <<dom>>
    /\ pageCount = 1
    /\ nextControl \in {"absent", "disabled"}
    /\ clicks = 0
    /\ height = 0
    /\ previousHeight = 0
    /\ volatility = MaxVolatility
    /\ Settling
    /\ stableCountRepeats = STABILITY_REPEATS
    /\ lastCount = Len(dom)
    /\ maxRepeats = STABILITY_REPEATS
    /\ readings = <<>>
    /\ browser = "open"
    /\ setupPage = "closed"
    /\ scraperPage = "closed"
    /\ stdout = <<LogLine, LogLine>>
    /\ csv = <<>>
    /\ csvWrites = 0
    /\ result = <<>>
    /\ returned = FALSE
    /\ exitCode = -1
    /\ storeChanges = 1
    /\ closeCalls = 0
    /\ cleanups = 0
    /\ errorAt = "none"
    /\ workers = [w \in Workers |-> Spawned]
    /\ files = {}
    /\ promises = [w \in Workers |-> Pending]
    /\ aggregate = [state |-> "pending", products |-> <<>>]

NextSort ==
    \/ Emit \/ WriteCsv \/ SortCallback \/ Return
    \/ Throw \/ Catch \/ Finally \/ Exit \/ RunWorkerExit

\* main from the emission of the result to the end of the process.
SpecSort == InitSort /\ [][NextSort]_vars

NextStability == StabilityTest \/ ScrollInit \/ ScrollStep \/ StabilityCount

\* One worker run in which every await completes (resolves or rejects) and
\* the parent's exit handler runs.
SpecLive == Init /\ [][Next]_vars /\ WF_vars(Next)

\* scrollAndWaitForStability alone, on a simulated page.
SpecStability == InitStability /\ [][NextStability]_vars

\* scrollAndWaitForStability called on a page of any kind: one that settles,
\* one that grows at every scroll step, one whose card list keeps changing.
InitScroll ==
    /\ InitCommon
    /\ pc = "sws_test"
    /\ ret = "caller"
    /\ dom \in SimDoms
    /\ maxRepeats \in Thresholds
    /\ growing \in BOOLEAN
    /\ restless \in BOOLEAN

\* Every await of the two loops completes: the loops keep taking steps.
SpecScroll ==
    InitScroll /\ [][NextStability]_vars /\ WF_vars(NextStability)

\* The retry loop entered on a page that shows one card.
InitExtract ==
    /\ InitCommon
    /\ Settling
    /\ pc = "retry"
    /\ ret = "none"
    /\ maxRepeats = STABILITY_REPEATS
    /\ \E card \in InputCards : dom = <<card>>

\* extractFieldsFromCard applied to the cards of the page.
SpecExtract == InitExtract /\ [][Extract]_vars

\* "Run all URLs": no worker has started yet.
InitFleet ==
    /\ InitCommon
    /\ Settling
    /\ pc = "cli"
    /\ ret = "none"
    /\ dom = <<>>
    /\ maxRepeats = STABILITY_REPEATS

NextFleet ==
    \/ \E w \in Workers : WorkerLoadFails(w)
    \/ \E w \in Workers : WorkerPage(w)
    \/ \E w \in Workers : WorkerSucceeds(w)
    \/ \E w \in Workers : WorkerFails(w)
    \/ \E w \in Workers : WorkerExited(w)
    \/ Aggregate

\* runAllUrls with one worker process per url.
SpecFleet == InitFleet /\ [][NextFleet]_vars

(***************************************************************************)
(* Properties.                                                             *)
(***************************************************************************)
DetectorPcs == {"sws_test", "suc_init", "suc_scroll", "sws_count"}

RECURSIVE Flatten(_)
Flatten(ss) == IF ss = <<>> THEN <<>> ELSE Head(ss) \o Flatten(Tail(ss))

ZeroPrice == <<"$", "0", ".", "0", "0">>

\* A snapshot holds a record with an empty name or a price of exactly $0.00.
HasInvalidRecord(snapshot) ==
    \E i \in 1..Len(snapshot) :
        snapshot[i].productName = <<>> \/ snapshot[i].price = ZeroPrice

\* The last n elements of s.
Suffix(s, n) == SubSeq(s, Len(s) - n + 1, Len(s))

\* C1: whatever the "next" control does, the number of pages stabilized
\* (pageCount) and the number of pages appended to the result never exceed
\* MAX_PAGES = 20.
C1_PageCap == pageCount <= MAX_PAGES /\ Len(accepted) <= MAX_PAGES

\* The twentieth page has been appended and the loop has stopped at the cap.
C1_Witness ==
    pc = "sap_finish" /\ pageCount = MAX_PAGES /\ Len(accepted) = MAX_PAGES

\* C2: at most 3 extraction attempts are made per page; when the third
\* attempt still yields an invalid record, the only step the worker can take
\* is to append (no error, no further attempt), and after it the controller
\* is in Deciding with the non-empty, partly invalid snapshot of the third
\* attempt at the end of the result.
C2_RetryCap ==
    /\ attempts <= MAX_ATTEMPTS
    /\ (pc = "retry" /\ attempts = MAX_ATTEMPTS /\ ~validDataFound)
          => (ENABLED AppendPage /\ ~ENABLED Extract /\ ~ENABLED Throw)
    /\ (pc = "deciding" /\ ~validDataFound)
          => /\ attempts = MAX_ATTEMPTS
             /\ source.attempt = MAX_ATTEMPTS
             /\ productData = ExtractAll(source.cards)
             /\ productData # <<>>
             /\ HasInvalidRecord(productData)
             /\ Len(products) >= Len(productData)
             /\ Suffix(products, Len(productData)) = productData
             /\ errorAt = "none"

\* Three invalid attempts on a page, and the controller is deciding.
C2_Witness ==
    /\ pc = "deciding"
    /\ ~validDataFound
    /\ attempts = MAX_ATTEMPTS
    /\ HasInvalidRecord(productData)
    /\ Suffix(products, Len(productData)) = productData

\* C3: once a snapshot has been extracted, validDataFound is true exactly
\* when no record of it has an empty name or the price $0.00, and a refresh
\* (the detector called from the retry loop) runs only for an invalid one.
C3_InvalidIff ==
    /\ attempts > 0 => (validDataFound <=> ~HasInvalidRecord(productData))
    /\ (pc \in DetectorPcs /\ ret = "retry")
          => (~validDataFound /\ HasInvalidRecord(productData))

\* A snapshot whose names are all there, classified invalid for one $0.00.
C3_Witness ==
    /\ attempts > 0
    /\ ~validDataFound
    /\ pc \in DetectorPcs /\ ret = "retry"
    /\ \A i \in 1..Len(productData) : productData[i].productName # <<>>
    /\ \E i \in 1..Len(productData) : productData[i].price = ZeroPrice

AllEqual(s, c) == \A i \in 1..Len(s) : s[i] = c

\* The detector's loop test fails: the call is over.
Stable == stableCountRepeats >= maxRepeats

\* C4 as stated: with threshold N, N equal readings from the start end the
\* call, with lastCount that reading; [3,3,3,3,3] with threshold 5 ends it
\* with lastCount = 3.
C4_Original ==
    /\ (maxRepeats = 5 /\ readings = <<3, 3, 3, 3, 3>>)
          => (Stable /\ lastCount = 3)
    /\ (readings # <<>> /\ Len(readings) = maxRepeats
        /\ AllEqual(readings, readings[1]))
          => (Stable /\ lastCount = readings[1])

\* C4, amended: while every reading of the call is the same count c, lastCount
\* is c and stableCountRepeats is the number of readings, less one when c is
\* not 0 (the first reading of a non-zero count differs from the initial
\* lastCount 0 and only sets lastCount).  So with threshold N the call ends
\* after N + 1 equal non-zero readings (six 3s for threshold 5), after N
\* readings of 0, and not earlier.
C4_StableAfter ==
    (readings # <<>> /\ AllEqual(readings, readings[1]))
       => LET c == readings[1]
              needed == maxRepeats + (IF c = 0 THEN 0 ELSE 1)
          IN  /\ lastCount = c
              /\ stableCountRepeats = Len(readings) - (IF c = 0 THEN 0 ELSE 1)
              /\ Stable <=> Len(readings) = needed
              /\ pc = "returned" => Len(readings) = needed

\* Threshold 5, six readings of 3: the call has returned with lastCount = 3.
C4_Witness ==
    /\ pc = "returned"
    /\ maxRepeats = 5
    /\ readings = <<3, 3, 3, 3, 3, 3>>
    /\ lastCount = 3

\* C5: after each append and when the loop has stopped, the records collected
\* are, in order, the records of the cards of the accepted renderings of the
\* pages in the order the pages were reached, each page's cards in DOM
\* order; scrapeAllProducts returns them, and a successful run returns them.
C5_ResultOrder ==
    /\ pc \in {"deciding", "sap_finish"}
          => LET cards == Flatten(accepted) IN
             /\ Len(products) = Len(cards)
             /\ \A k \in 1..Len(cards) :
                    products[k] = extractFieldsFromCard(cards[k])
    /\ pc \in {"scraper_close", "emit", "write_csv", "return"}
          => allProducts = products
    /\ (pc \in {"finally", "exit", "done"} /\ errorAt = "none")
          => (returned /\ result = products /\ Len(accepted) = pageCount)

\* Page 1 with 24 valid records and an enabled next control, page 2 with 10
\* valid records and no next control: 34 records after 2 pages.
C5_Witness ==
    /\ pc = "done"
    /\ errorAt = "none"
    /\ accepted = <<FullPage(1), FullPage(2)>>
    /\ Len(FullPage(1)) = 24 /\ Len(FullPage(2)) = 10
    /\ ~HasInvalidRecord(result)
    /\ Len(result) = 34
    /\ result[1].productName = CardName(1)
    /\ result[34].productName = CardName(34)
    /\ pageCount = 2
    /\ nextControl = "absent"

\* The pcs of the per-page loop of scrapeAllProducts, after pageCount++.
InPagePcs ==
    DetectorPcs \cup {"screenshot", "retry", "deciding", "check_disabled",
                      "click_next", "sap_finish"}

\* C6: Deciding stops at the cap without querying the control; below the cap
\* it stops when the control is absent, then when it is disabled; only an
\* enabled control is clicked, once per page, and the loop then starts the
\* next page.
C6_DecidingOrder ==
    /\ (pc = "deciding" /\ pageCount >= MAX_PAGES)
          => (ENABLED DecideCap /\ ~ENABLED QueryNext /\ ~ENABLED Throw)
    /\ (pc = "deciding" /\ pageCount < MAX_PAGES)
          => (ENABLED QueryNext /\ ~ENABLED DecideCap)
    /\ pc = "deciding" => nextControl = "unqueried"
    /\ pc = "sap_finish"
          => \/ pageCount = MAX_PAGES /\ nextControl = "unqueried"
             \/ pageCount < MAX_PAGES /\ nextControl \in {"absent", "disabled"}
    /\ pc = "check_disabled" => (pageCount < MAX_PAGES /\ nextControl = "present")
    /\ pc = "click_next" => (pageCount < MAX_PAGES /\ nextControl = "enabled")
    /\ pc \in InPagePcs => clicks = pageCount - 1
    /\ pc = "page_start" => (clicks = pageCount /\ ENABLED PageStart)

\* An enabled control has been clicked once and the loop is back at its top.
C6_Witness ==
    pc = "page_start" /\ pageCount = 1 /\ clicks = 1 /\ nextControl = "enabled"

\* C7: browser.close() is called at most once, and a run that acquired a
\* session has called it exactly once when it ends, whatever the exit path.
C7_SessionReleased ==
    /\ closeCalls <= 1
    /\ browser = "open" => closeCalls = 0
    /\ pc = "done"
          => IF errorAt = "connect"
             THEN browser = "undefined" /\ closeCalls = 0
             ELSE browser = "closed" /\ closeCalls = 1

\* A run that failed while counting cards has ended with the browser closed.
C7_Witness ==
    pc = "done" /\ errorAt = "sws_count" /\ closeCalls = 1 /\ browser = "closed"

\* C8: when connectToBrowser fails, the run returns the empty sequence and
\* the finally block (the cleanup step) has run exactly once when it ends.
C8_ConnectFailure ==
    /\ cleanups <= 1
    /\ (errorAt = "connect" /\ pc \in {"exit", "done"})
          => (returned /\ result = <<>> /\ cleanups = 1)

\* The connection failed and the run has ended.
C8_Witness ==
    /\ pc = "done"
    /\ errorAt = "connect"
    /\ browser = "undefined"
    /\ result = <<>>
    /\ cleanups = 1

\* Where a setup or extraction error is thrown.
SetupPoints ==
    {"setup_newPage", "setup_goto", "changeStore", "setup_close",
     "scraper_newPage"}

ExtractionPoints ==
    DetectorPcs \cup {"sap_goto", "screenshot", "retry", "deciding",
                      "check_disabled", "click_next", "waitForNavigation"}

\* C9: after an error the worker is in its catch, finally or exit steps only
\* (no page is processed any more); a setup or extraction error gives the
\* empty result, and the run ends through process.exit.
C9_ErrorsCaught ==
    /\ errorAt # "none" => pc \in {"catch", "finally", "exit", "done", "reported"}
    /\ (errorAt \in SetupPoints \cup ExtractionPoints
        /\ pc \in {"finally", "exit", "done", "reported"})
          => (returned /\ result = <<>>)
    /\ pc \in {"done", "reported"} => (returned /\ exitCode = 0)

\* The navigation to the second page timed out after the first page had been
\* collected: the run has ended with an empty result.
C9_Witness ==
    /\ pc = "done"
    /\ errorAt = "waitForNavigation"
    /\ Len(products) > 0
    /\ result = <<>>

\* C10 as stated: a run that failed ends with a non-zero exit code and
\* an empty result.
C10_FailedRunNonZeroExit ==
    (pc = "done" /\ errorAt # "none") => (exitCode # 0 /\ result = <<>>)


\* C11: after a successful run with result R, runWorker, parsing the stdout
\* it captured from the worker, resolves with exactly the records of R.
C11_OrchestratorRecovers ==
    (pc = "reported" /\ errorAt = "none") =>
        promises[ThisWorker] = ResolvedArray(result)


\* A run has failed for the aggregator: non-zero exit code, or output that
\* cannot be parsed.
RunFailed(w) ==
    /\ workers[w].stage = "exited"
    /\ workers[w].code # 0 \/ ~ParseOk(workers[w].out)

RECURSIVE RecordsOfSuccessful(_)
RecordsOfSuccessful(w) ==
    IF w > NumUrls THEN <<>>
    ELSE (IF RunFailed(w) THEN <<>> ELSE Parsed(workers[w].out))
         \o RecordsOfSuccessful(w + 1)

\* C12: concurrent runs share no mutable state: no file written by one run
\* (the files it creates while scraping included) is written by another run.
C12_NothingShared ==
    \A f \in files : \A g \in files : f.name = g.name => f.by = g.by

\* C13: when one of the concurrent runs fails, runAllUrls still completes, and
\* its aggregate holds the records of every successful sibling and no record
\* of the failed run.
C13_FailureIsolated ==
    (aggregate.state # "pending" /\ \E w \in Workers : RunFailed(w)) =>
        /\ aggregate.state = "collected"
        /\ aggregate.products = RecordsOfSuccessful(1)


\* The digits of an element's text, in their order ("" without element).
TextDigits(e) ==
    IF e.el
    THEN SelectSeq(e.text, LAMBDA c : c \in {"0", "1", "2", "3", "4", "5", "6",
                                              "7", "8", "9"})
    ELSE <<>>

OrDefault(t, default) == IF t = <<>> THEN default ELSE t

\* C14: the price of an extracted record is "$", the digits of the dollars
\* text ("0" when there are none), ".", the digits of the cents text ("00"
\* when there are none): "$1,234" and "56" give "$1234.56", and a card
\* without cents gives "$<dollars>.00".
C14_PriceComposition ==
    (pc \in {"retry", "sws_test"} /\ attempts > 0) =>
        \A i \in 1..Len(productData) :
            LET card == source.cards[i]
                price == productData[i].price
            IN /\ price = <<"$">> \o OrDefault(TextDigits(card.dollars), <<"0">>)
                           \o <<".">>
                           \o OrDefault(TextDigits(card.cents), <<"0", "0">>)
               /\ (card.dollars = El(<<"$", "1", ",", "2", "3", "4">>)
                   /\ card.cents = El(<<"5", "6">>))
                  => price = <<"$", "1", "2", "3", "4", ".", "5", "6">>
               /\ ~card.cents.el
                  => SubSeq(price, Len(price) - 2, Len(price)) = <<".", "0", "0">>

C14_Witness ==
    /\ pc = "retry"
    /\ attempts = 1
    /\ Len(dom) = 1
    /\ dom[1] \in InputCards
    /\ source.cards = dom
    /\ dom[1].dollars = El(<<"$", "1", ",", "2", "3", "4">>)
    /\ ~dom[1].cents.el
    /\ productData[1].price = <<"$", "1", "2", "3", "4", ".", "0", "0">>


\* The reading before reading i: lastCount when reading i was taken.
Before(h, i) == IF i = 1 THEN 0 ELSE h[i - 1]

\* How many readings at the end of h each equal the reading before them.
RECURSIVE TrailingEqual(_)
TrailingEqual(h) ==
    IF h = <<>> \/ h[Len(h)] # Before(h, Len(h)) THEN 0
    ELSE 1 + TrailingEqual(SubSeq(h, 1, Len(h) - 1))

\* C15: a reading that differs from lastCount sets stableCountRepeats to 0 and
\* lastCount to the reading, an equal reading adds 1; the loop ends exactly
\* when stableCountRepeats reaches the threshold, so only the trailing run of
\* equal readings counts (the leading 3 of 3,4,4,4,4,4 contributes nothing).
C15_TrailingRunCounts ==
    /\ [][pc = "sws_count" =>
            LET currentCount == readings'[Len(readings')] IN
            /\ Len(readings') = Len(readings) + 1
            /\ lastCount' = currentCount
            /\ stableCountRepeats' = IF currentCount = lastCount
                                     THEN stableCountRepeats + 1 ELSE 0]_vars
    /\ [](/\ stableCountRepeats = TrailingEqual(readings)
          /\ lastCount = Before(readings, Len(readings) + 1)
          /\ stableCountRepeats <= maxRepeats
          /\ pc = "returned" => stableCountRepeats = maxRepeats
          /\ pc \in {"suc_init", "suc_scroll", "sws_count"}
                => stableCountRepeats < maxRepeats)

C15_Witness ==
    /\ pc = "sws_test"
    /\ maxRepeats = STABILITY_REPEATS
    /\ readings = <<3, 4, 4, 4, 4, 4>>
    /\ stableCountRepeats = 4
    /\ lastCount = 4


\* C16: scrollAndWaitForStability stops after a bounded number of iterations
\* even when the card count never stabilizes (on a page whose height settles).
C16_DetectorStops == ~growing => <>(pc = "returned")

\* C20: scrollUntilNoChange leaves its loop at the first scroll step after
\* which the measured height equals the previous measurement, and in no other
\* way; when the height stops growing and the count stops changing the
\* detector terminates; on a page whose height grows at every scroll step the
\* loop is never left.
C20_ScrollLoopExit ==
    /\ [][pc = "suc_scroll" =>
            /\ pc' = "sws_count" <=> height' = previousHeight
            /\ pc' \in {"suc_scroll", "sws_count"}
            /\ pc' = "suc_scroll" => previousHeight' = height']_vars
    /\ Settling => <>(pc = "returned")
    /\ [](growing => pc \in {"sws_test", "suc_init", "suc_scroll"})

C20_Witness ==
    /\ growing
    /\ pc = "suc_scroll"
    /\ height = MaxScrolls
    /\ previousHeight = height


\* C17: a refresh after an invalid snapshot is followed by a re-extraction, so
\* the snapshot appended for a page was extracted after the most recent
\* stabilization pass on that page; when the first attempt is valid the page
\* has had exactly one stabilization pass and one extraction.
C17_FreshSnapshot ==
    pc = "deciding" =>
        /\ source.pass = passes
        /\ source.attempt = attempts
        /\ (validDataFound /\ attempts = 1) => passes = 1


\* C18: a failure of page.screenshot() does not change the run result: the
\* records of the pages collected before the screenshot are in the result.
C18_ScreenshotNotRequired ==
    (pc = "done" /\ errorAt = "screenshot") =>
        /\ Len(result) >= Len(products)
        /\ SubSeq(result, 1, Len(products)) = products


\* C19: when every stabilization phase and every navigation wait completes,
\* the run ends after finitely many steps: at most 20 page cycles, each with
\* at most 3 extraction attempts.
C19_RunTerminates ==
    /\ [](/\ pageCount <= MAX_PAGES
          /\ Len(accepted) <= MAX_PAGES
          /\ attempts <= MAX_ATTEMPTS
          /\ source.attempt <= MAX_ATTEMPTS)
    /\ <>(pc = "done")

C19_Witness ==
    /\ pc = "done"
    /\ errorAt = "none"
    /\ pageCount = MAX_PAGES
    /\ Len(accepted) = MAX_PAGES
    /\ HasInvalidRecord(ExtractAll(accepted[1]))


\* The steps of main before the store context is set and its page closed.
BeforeSetupDone ==
    {"connect", "setup_newPage", "setup_goto", "changeStore", "setup_close"}

\* C21: changeStore runs exactly once per session, on the setup page, and has
\* completed, with that page closed, before scrapeAllProducts navigates to the
\* target URL; when the setup fails scrapeAllProducts is never invoked.
C21_SetupOnceBefore ==
    /\ storeChanges <= 1
    /\ (errorAt = "none" /\ pc \notin BeforeSetupDone)
          => (storeChanges = 1 /\ setupPage = "closed")
    /\ (pc \in {"sap_enter", "sap_goto", "page_start"} \cup InPagePcs
        \/ scraperPage # "none" \/ pageCount > 0 \/ clicks > 0)
          => (storeChanges = 1 /\ setupPage = "closed"
              /\ errorAt \notin BeforeSetupDone)
    /\ errorAt \in BeforeSetupDone
          => (scraperPage = "none" /\ pageCount = 0 /\ passes = 0
              /\ source.attempt = 0 /\ products = <<>>)

\* The target URL has just been loaded, after the one store change.
C21_Witness ==
    /\ pc = "page_start"
    /\ pageCount = 0
    /\ storeChanges = 1
    /\ setupPage = "closed"
    /\ scraperPage = "open"


\* C22: the sort is started only after the CSV is written and only for the
\* "PT_" and "SPF_" paths, never for "PLY_"; the run does not wait for it (it
\* returns, closes the browser and exits while the sort is running or after
\* its callback), and a failed sort changes neither the result nor the exit
\* code.
C22_SortFireAndForget ==
    /\ sort # "none" => (csvWrites = 1 /\ csvName \in {"PT_", "SPF_"})
    /\ csvName = "PLY_" => sort = "none"
    /\ (csvWrites = 1 /\ csvName \in {"PT_", "SPF_"}) => sort # "none"
    /\ (pc = "return" /\ csvWrites = 1)
          => (sort \in {"none", "running"} /\ ENABLED Return)
    /\ (pc = "finally" /\ sort = "running") => ENABLED Finally
    /\ (pc = "exit" /\ sort = "running") => ENABLED Exit
    /\ (pc \in {"done", "reported"} /\ csvWrites = 1)
          => (result = allProducts /\ exitCode = 0 /\ errorAt = "none"
              /\ browser = "closed")

\* The process has exited, browser closed, before the sort's callback ran.
C22_Witness ==
    /\ pc = "done"
    /\ sort = "running"
    /\ csvName = "SPF_"
    /\ browser = "closed"
    /\ csvWrites = 1


\* C23: stableCountRepeats always lies between 0 and maxRepeats; when the call
\* has ended it equals maxRepeats and the last maxRepeats readings all equal
\* lastCount; a call whose readings never changed took maxRepeats + 1 readings
\* when the count is not zero, and maxRepeats readings when it is zero.
C23_CounterBounds ==
    /\ 0 <= stableCountRepeats
    /\ stableCountRepeats <= maxRepeats
    /\ pc = "returned" =>
          /\ stableCountRepeats = maxRepeats
          /\ Len(readings) >= maxRepeats
          /\ AllEqual(Suffix(readings, maxRepeats), lastCount)
          /\ AllEqual(readings, lastCount) =>
                Len(readings) = IF lastCount = 0 THEN maxRepeats
                                ELSE maxRepeats + 1

\* A page without cards, threshold 3: the call ended after three readings.
C23_Witness ==
    /\ pc = "returned"
    /\ maxRepeats = 3
    /\ readings = <<0, 0, 0>>
    /\ stableCountRepeats = 3


\* C24: an extraction that finds no card makes the page valid at once, the
\* first attempt included: no stabilization pass is started and no further
\* attempt is made; the page adds no record to the list and, unless an error
\* is thrown, the next step of the loop is the decision whether to go on.
C24_EmptyPageValid ==
    /\ [][(pc = "retry" /\ RetryGuard /\ pc' # "catch" /\ dom' = <<>>)
            => /\ attempts' = attempts + 1
               /\ validDataFound'
               /\ productData' = <<>>
               /\ pc' = "retry"
               /\ passes' = passes
               /\ UNCHANGED detVars]_vars
    /\ [][(pc = "retry" /\ ~RetryGuard /\ pc' # "catch"
            /\ source.cards = <<>>)
            => /\ pc' = "deciding"
               /\ products' = products
               /\ attempts' = attempts
               /\ passes' = passes]_vars
    /\ []((pc \in {"retry", "deciding"} /\ source.attempt = 1
            /\ source.cards = <<>> /\ attempts > 0)
            => (validDataFound /\ attempts = 1 /\ passes = 1
                /\ productData = <<>>))

\* The first page had no card at the first attempt and has been accepted.
C24_Witness ==
    /\ pc = "deciding"
    /\ pageCount = 1
    /\ source = [cards |-> <<>>, attempt |-> 1, pass |-> 1]
    /\ attempts = 1
    /\ accepted = << <<>> >>
    /\ products = <<>>


\* The machine-readable lines written to stdout so far.
Emitted == SelectSeq(stdout, LAMBDA l : l.kind = "json")

\* scrapeAllProducts has returned and the scraping page is closed.
AfterScraping ==
    /\ pc \in {"emit", "write_csv", "return", "catch", "finally", "exit",
                "done", "reported"}
    /\ scraperPage = "closed"
    /\ errorAt \notin (ThrowPoints \ {"write_csv"}) \cup {"retry", "deciding"}

\* C25 as stated: the result is emitted in machine-readable form at most
\* once and the CSV is written at most once, both only after the pagination
\* loop has ended and the scraping page is closed, the emission before the
\* write; in a run that failed nothing is emitted and no CSV is written.
C25_OutputOnlyOnSuccess ==
    /\ Len(Emitted) <= 1
    /\ csvWrites <= 1
    /\ (Emitted # <<>> \/ csvWrites > 0) => AfterScraping
    /\ csvWrites > 0 => Emitted = <<JsonLine(allProducts)>>
    /\ errorAt # "none" => (Emitted = <<>> /\ csvWrites = 0 /\ csv = <<>>)

=============================================================================
